---------------------------- MODULE Spec2Model ----------------------------
(***************************************************************************)
(* A model of neo4j_genai's index helpers (src/src/neo4j_genai/indexes.py) *)
(* and of the example knowledge-graph pipeline                             *)
(* (src/examples/pipeline/kg_builder.py).                                  *)
(*                                                                         *)
(* Strings built by f-strings and concatenation are sequences of their     *)
(* fragments; a float vector [0.1, 0.2, 0.3] is written in tenths,         *)
(* <<1, 2, 3>>; a dimensions argument is a tagged value, [type |-> "int",  *)
(* val |-> k] for the int k and [type |-> "float", val |-> k] for the      *)
(* non-integral float k + 0.5. The backquote of the Cypher text, which a   *)
(* TLA+ string cannot hold, is written as an apostrophe.                   *)
(***************************************************************************)
EXTENDS Integers, Sequences, FiniteSets, TLC

VARIABLES
    indexes,      \* the names of the database's indexes
    nodeVectors,  \* the database's nodes: node id -> stored vector (<<>>: none)
    last,         \* the last helper invocation, with what it sent and how it ended
    prev,         \* a summary of the invocation before it
    text,         \* pipe_inputs["chunker"]["text"]
    schema,       \* pipe_inputs["schema"]["schema"]
    compState,    \* the runner's state of each component
    inputs,       \* the arguments each started component was run with
    outputs,      \* the output record of each finished component
    doneOrder,    \* the extractor's _process_chunk tasks, in completion order
    mergedFrom    \* for each merged entity, the chunk its task belonged to

indexVars == <<indexes, nodeVectors, last, prev>>
pipeVars == <<text, schema, compState, inputs, outputs, doneOrder, mergedFrom>>
vars == <<indexes, nodeVectors, last, prev,
          text, schema, compState, inputs, outputs, doneOrder, mergedFrom>>

---------------------------------------------------------------------------
(* Bounds of the model and the inputs drawn from them.                     *)

MaxDim == 1
MaxProps == 2
MaxTextLen == 5

DIMENSION == 1536

Names == {"embedding-name", "fulltext-name"}
Labels == {"Document"}
EmbeddingProps == {"vectorProperty"}
NodeProps == <<"title", "body", "summary">>
NodeIds == {0, 1}
ExistingNodes == {0}
Vectors == {<<1, 2, 3>>, <<5>>}
SimilarityFns == {"euclidean", "cosine", "manhattan"}
Dimensions ==
    [type : {"int"}, val : (-1 .. MaxDim) \cup {DIMENSION}]
        \cup [type : {"float"}, val : {1}]
PropertyLists == {SubSeq(NodeProps, 1, n) : n \in 0 .. MaxProps}
Faults == {"none", "client", "other"}

---------------------------------------------------------------------------
(* Exceptions and outcomes.                                                *)

NoExc == [cls |-> "None", message |-> <<>>]
Returned == [kind |-> "return", cls |-> "None", message |-> <<>>]
Raised(cls, message) == [kind |-> "raise", cls |-> cls, message |-> message]

---------------------------------------------------------------------------
(* The database behind the driver, as far as the helpers rely on it.       *)

DuplicateMessage == "An index with the same name already exists"
MissingMessage == "Unable to drop index: no such index"
ForbiddenMessage == "Permission denied"
UnavailableMessage == "Unable to connect to the database"

DbResult(exc, idx, vecs) == [exc |-> exc, indexes |-> idx, nodeVectors |-> vecs]

\* CREATE ... INDEX $name ...: fails when an index of that name exists.
DbCreateIndex(name, ifNotExists, idx, vecs) ==
    IF name \in idx
    THEN IF ifNotExists
         THEN DbResult(NoExc, idx, vecs)
         ELSE DbResult([cls |-> "ClientError", message |-> <<DuplicateMessage>>],
                       idx, vecs)
    ELSE DbResult(NoExc, idx \cup {name}, vecs)

\* DROP INDEX $name [IF EXISTS]
DbDropIndex(name, ifExists, idx, vecs) ==
    IF name \in idx
    THEN DbResult(NoExc, idx \ {name}, vecs)
    ELSE IF ifExists
         THEN DbResult(NoExc, idx, vecs)
         ELSE DbResult([cls |-> "ClientError", message |-> <<MissingMessage>>],
                       idx, vecs)

\* MATCH (n) WHERE elementId(n) = $id ... setNodeVectorProperty(n, ..., $vector)
DbSetNodeVector(id, vector, idx, vecs) ==
    IF id \in DOMAIN vecs
    THEN DbResult(NoExc, idx, [vecs EXCEPT ![id] = vector])
    ELSE DbResult(NoExc, idx, vecs)

VectorIndexHead == "CREATE VECTOR INDEX $name FOR (n:"
FulltextIndexHead == "CREATE FULLTEXT INDEX $name "
FulltextIfNotExistsHead == "CREATE FULLTEXT INDEX $name IF NOT EXISTS "
DropIfExistsQuery == "DROP INDEX $name IF EXISTS"
DropQuery == "DROP INDEX $name"
\* (the query's line breaks and indentation are written as single spaces)
UpsertQuery ==
    "MATCH (n) WHERE elementId(n) = $id WITH n CALL db.create.setNodeVectorProperty(n, $embedding_property, $vector) RETURN n"

\* The statement's effect, decided by its text and its bound parameters.
DbRun(query, parameters, idx, vecs) ==
    CASE query[1] = VectorIndexHead ->
            DbCreateIndex(parameters.name, FALSE, idx, vecs)
      [] query[1] = FulltextIndexHead ->
            DbCreateIndex(parameters.name, FALSE, idx, vecs)
      [] query[1] = FulltextIfNotExistsHead ->
            DbCreateIndex(parameters.name, TRUE, idx, vecs)
      [] query[1] = DropIfExistsQuery ->
            DbDropIndex(parameters.name, TRUE, idx, vecs)
      [] query[1] = DropQuery ->
            DbDropIndex(parameters.name, FALSE, idx, vecs)
      [] query[1] = UpsertQuery ->
            DbSetNodeVector(parameters.id, parameters.vector, idx, vecs)

\* driver.execute_query(query, parameters): the database's answer, unless the
\* call fails on its own: with a ClientError the database did not derive from
\* its indexes (fault "client"), or with a driver error that is no
\* ClientError (fault "other"); a call that fails leaves the database as it was.
execute_query(query, parameters, fault, idx, vecs) ==
    CASE fault = "client" ->
            DbResult([cls |-> "ClientError", message |-> <<ForbiddenMessage>>],
                     idx, vecs)
      [] fault = "other" ->
            DbResult([cls |-> "ServiceUnavailable",
                      message |-> <<UnavailableMessage>>], idx, vecs)
      [] OTHER -> DbRun(query, parameters, idx, vecs)

---------------------------------------------------------------------------
(* Argument validation (neo4j_genai.types).                                *)

\* The fields pydantic rejects, in declaration order: what e.errors() names.
\* dimensions must be a positive integer, similarity_fn one of the two names.
VectorIndexModel(name, label, embedding_property, dimensions, similarity_fn) ==
    (IF dimensions.type = "int" /\ dimensions.val >= 1
     THEN <<>> ELSE <<"dimensions">>)
    \o (IF similarity_fn \in {"euclidean", "cosine"}
        THEN <<>> ELSE <<"similarity_fn">>)

FulltextIndexModel(name, label, node_properties) ==
    IF Len(node_properties) >= 1 THEN <<>> ELSE <<"node_properties">>

---------------------------------------------------------------------------
(* The helpers. Each returns what the invocation sent to the driver, the   *)
(* exception the driver raised (if any), how the invocation ended and the  *)
(* database it leaves.                                                     *)

CallResult(sent, driverExc, outcome, idx, vecs) ==
    [sent |-> sent, driverExc |-> driverExc, outcome |-> outcome,
     indexes |-> idx, nodeVectors |-> vecs]

Statement(query, parameters) == [query |-> query, parameters |-> parameters]

\* try: driver.execute_query(...) except ClientError as e: raise <cls>(prefix + e.message)
ExecuteWrapped(query, parameters, cls, prefix, fault, idx, vecs) ==
    LET r == execute_query(query, parameters, fault, idx, vecs)
    IN CallResult(
          <<Statement(query, parameters)>>,
          r.exc,
          CASE r.exc.cls = "None" -> Returned
            [] r.exc.cls = "ClientError" -> Raised(cls, <<prefix>> \o r.exc.message)
            [] OTHER -> Raised(r.exc.cls, r.exc.message),
          r.indexes, r.nodeVectors)

\* f"CREATE VECTOR INDEX $name FOR (n:{label}) ON n.{embedding_property} OPTIONS " "{ ... }"
VectorIndexQuery(label, embedding_property) ==
    <<VectorIndexHead, label, ") ON n.", embedding_property, " OPTIONS ",
      "{ indexConfig: { 'vector.dimensions': toInteger($dimensions), 'vector.similarity_function': $similarity_fn } }">>

\* Mutant: the ValidationError is logged and the statement is sent all the same.
create_vector_index_unvalidated(name, label, embedding_property, dimensions, similarity_fn, fault, idx, vecs) ==
    ExecuteWrapped(VectorIndexQuery(label, embedding_property),
                   [name |-> name, dimensions |-> dimensions,
                    similarity_fn |-> similarity_fn],
                   "Neo4jIndexError", "Neo4j vector index creation failed: ",
                   fault, idx, vecs)

\* Mutant: a statement the driver rejected with a ClientError is sent again.
create_vector_index_retrying(name, label, embedding_property, dimensions, similarity_fn, fault, idx, vecs) ==
    LET errors == VectorIndexModel(name, label, embedding_property,
                                   dimensions, similarity_fn)
        parameters == [name |-> name, dimensions |-> dimensions,
                       similarity_fn |-> similarity_fn]
        first == ExecuteWrapped(VectorIndexQuery(label, embedding_property),
                                parameters, "Neo4jIndexError",
                                "Neo4j vector index creation failed: ",
                                fault, idx, vecs)
    IN IF errors # <<>>
       THEN CallResult(<<>>, NoExc,
                Raised("Neo4jIndexError",
                       <<"Error for inputs to create_vector_index ">> \o errors),
                idx, vecs)
       ELSE IF first.driverExc.cls = "ClientError"
            THEN [first EXCEPT !.sent = first.sent \o first.sent]
            ELSE first

\* Mutant: the dimensions parameter is the example's DIMENSION, not the argument.
create_vector_index_fixed_dimensions(name, label, embedding_property, dimensions, similarity_fn, fault, idx, vecs) ==
    LET errors == VectorIndexModel(name, label, embedding_property,
                                   dimensions, similarity_fn)
    IN IF errors # <<>>
       THEN CallResult(<<>>, NoExc,
                Raised("Neo4jIndexError",
                       <<"Error for inputs to create_vector_index ">> \o errors),
                idx, vecs)
       ELSE ExecuteWrapped(VectorIndexQuery(label, embedding_property),
                           [name |-> name,
                            dimensions |-> [type |-> "int", val |-> DIMENSION],
                            similarity_fn |-> similarity_fn],
                           "Neo4jIndexError",
                           "Neo4j vector index creation failed: ",
                           fault, idx, vecs)

create_vector_index(name, label, embedding_property, dimensions, similarity_fn, fault, idx, vecs) ==
    LET errors == VectorIndexModel(name, label, embedding_property,
                                   dimensions, similarity_fn)
        query == VectorIndexQuery(label, embedding_property)
        parameters == [name |-> name, dimensions |-> dimensions,
                       similarity_fn |-> similarity_fn]
    IN IF errors # <<>>
       THEN CallResult(<<>>, NoExc,
                Raised("Neo4jIndexError",
                       <<"Error for inputs to create_vector_index ">> \o errors),
                idx, vecs)
       ELSE ExecuteWrapped(query, parameters, "Neo4jIndexError",
                           "Neo4j vector index creation failed: ",
                           fault, idx, vecs)

\* ', '.join(["n.'" + prop + "'" for prop in node_properties])
RECURSIVE JoinProps(_)
JoinProps(props) ==
    IF props = <<>> THEN <<>>
    ELSE IF Len(props) = 1 THEN <<"n.'", props[1], "'">>
    ELSE <<"n.'", props[1], "'", ", ">> \o JoinProps(Tail(props))

\* "CREATE FULLTEXT INDEX $name " f"FOR (n:`{label}`) ON EACH " f"[{...}]"
FulltextIndexQuery(head, label, node_properties) ==
    <<head, "FOR (n:'", label, "') ON EACH ", "[">>
        \o JoinProps(node_properties) \o <<"]">>

\* Mutant: the statement is built and sent before the arguments are validated.
create_fulltext_index_validating_late(name, label, node_properties, fault, idx, vecs) ==
    LET errors == FulltextIndexModel(name, label, node_properties)
        r == ExecuteWrapped(
                 FulltextIndexQuery(FulltextIndexHead, label, node_properties),
                 [name |-> name], "Neo4jIndexError",
                 "Neo4j fulltext index creation failed ", fault, idx, vecs)
    IN IF errors # <<>> /\ r.outcome.kind = "return"
       THEN [r EXCEPT !.outcome =
                Raised("Neo4jIndexError",
                       <<"Error for inputs to create_fulltext_index: ">>
                           \o errors)]
       ELSE r

\* Mutant: the statement carries IF NOT EXISTS.
create_fulltext_index_if_not_exists(name, label, node_properties, fault, idx, vecs) ==
    LET errors == FulltextIndexModel(name, label, node_properties)
    IN IF errors # <<>>
       THEN CallResult(<<>>, NoExc,
                Raised("Neo4jIndexError",
                       <<"Error for inputs to create_fulltext_index: ">>
                           \o errors),
                idx, vecs)
       ELSE ExecuteWrapped(
                FulltextIndexQuery(FulltextIfNotExistsHead, label,
                                   node_properties),
                [name |-> name], "Neo4jIndexError",
                "Neo4j fulltext index creation failed ", fault, idx, vecs)

create_fulltext_index(name, label, node_properties, fault, idx, vecs) ==
    LET errors == FulltextIndexModel(name, label, node_properties)
        query == FulltextIndexQuery(FulltextIndexHead, label, node_properties)
        parameters == [name |-> name]
    IN IF errors # <<>>
       THEN CallResult(<<>>, NoExc,
                Raised("Neo4jIndexError",
                       <<"Error for inputs to create_fulltext_index: ">> \o errors),
                idx, vecs)
       ELSE ExecuteWrapped(query, parameters, "Neo4jIndexError",
                           "Neo4j fulltext index creation failed ",
                           fault, idx, vecs)

\* Mutant: the statement lacks IF EXISTS.
drop_index_unqualified(name, fault, idx, vecs) ==
    ExecuteWrapped(<<DropQuery>>, [name |-> name], "Neo4jIndexError",
                   "Dropping Neo4j index failed: ", fault, idx, vecs)

drop_index_if_exists(name, fault, idx, vecs) ==
    ExecuteWrapped(<<DropIfExistsQuery>>, [name |-> name], "Neo4jIndexError",
                   "Dropping Neo4j index failed: ", fault, idx, vecs)

\* Mutant: the raised error does not carry e.message.
upsert_vector_dropping_message(node_id, embedding_property, vector, fault, idx, vecs) ==
    LET r == ExecuteWrapped(<<UpsertQuery>>,
                 [id |-> node_id, embedding_property |-> embedding_property,
                  vector |-> vector],
                 "Neo4jInsertionError", "Upserting vector to Neo4j failed: ",
                 fault, idx, vecs)
    IN IF r.driverExc.cls = "ClientError"
       THEN [r EXCEPT !.outcome =
                Raised("Neo4jInsertionError",
                       <<"Upserting vector to Neo4j failed">>)]
       ELSE r

upsert_vector(node_id, embedding_property, vector, fault, idx, vecs) ==
    ExecuteWrapped(<<UpsertQuery>>,
                   [id |-> node_id, embedding_property |-> embedding_property,
                    vector |-> vector],
                   "Neo4jInsertionError", "Upserting vector to Neo4j failed: ",
                   fault, idx, vecs)

---------------------------------------------------------------------------
(* One action per helper invocation.                                       *)

NoCall ==
    [op |-> "none", args |-> <<>>, fault |-> "none", sent |-> <<>>,
     driverExc |-> NoExc, outcome |-> Returned, before |-> {}]

NoPrev == [op |-> "none", name |-> "", existed |-> FALSE]

\* What is kept of the invocation before the last one: the helper, the index
\* name it was given and whether an index of that name existed when it began.
Summary(call) ==
    IF "name" \in DOMAIN call.args
    THEN [op |-> call.op, name |-> call.args.name,
          existed |-> call.args.name \in call.before]
    ELSE [op |-> call.op, name |-> "", existed |-> FALSE]

\* The record kept of an invocation that began with the indexes idx.
Invocation(op, args, fault, r, idx) ==
    [op |-> op, args |-> args, fault |-> fault, sent |-> r.sent,
     driverExc |-> r.driverExc, outcome |-> r.outcome, before |-> idx]

CreateVectorIndex(faults) ==
    \E name \in Names, label \in Labels, embedding_property \in EmbeddingProps,
       dimensions \in Dimensions, similarity_fn \in SimilarityFns, fault \in faults :
        LET r == create_vector_index(name, label, embedding_property, dimensions,
                                     similarity_fn, fault, indexes, nodeVectors)
        IN /\ last' = Invocation("create_vector_index",
                         [name |-> name, label |-> label,
                          embedding_property |-> embedding_property,
                          dimensions |-> dimensions,
                          similarity_fn |-> similarity_fn],
                         fault, r, indexes)
           /\ prev' = Summary(last)
           /\ indexes' = r.indexes
           /\ nodeVectors' = r.nodeVectors
           /\ UNCHANGED pipeVars

CreateFulltextIndex(faults) ==
    \E name \in Names, label \in Labels, node_properties \in PropertyLists,
       fault \in faults :
        LET r == create_fulltext_index(name, label, node_properties, fault,
                                       indexes, nodeVectors)
        IN /\ last' = Invocation("create_fulltext_index",
                         [name |-> name, label |-> label,
                          node_properties |-> node_properties],
                         fault, r, indexes)
           /\ prev' = Summary(last)
           /\ indexes' = r.indexes
           /\ nodeVectors' = r.nodeVectors
           /\ UNCHANGED pipeVars

DropIndexIfExists(faults) ==
    \E name \in Names, fault \in faults :
        LET r == drop_index_if_exists(name, fault, indexes, nodeVectors)
        IN /\ last' = Invocation("drop_index_if_exists", [name |-> name],
                                 fault, r, indexes)
           /\ prev' = Summary(last)
           /\ indexes' = r.indexes
           /\ nodeVectors' = r.nodeVectors
           /\ UNCHANGED pipeVars

UpsertVector(faults) ==
    \E node_id \in NodeIds, embedding_property \in EmbeddingProps,
       vector \in Vectors, fault \in faults :
        LET r == upsert_vector(node_id, embedding_property, vector, fault,
                               indexes, nodeVectors)
        IN /\ last' = Invocation("upsert_vector",
                         [node_id |-> node_id,
                          embedding_property |-> embedding_property,
                          vector |-> vector],
                         fault, r, indexes)
           /\ prev' = Summary(last)
           /\ indexes' = r.indexes
           /\ nodeVectors' = r.nodeVectors
           /\ UNCHANGED pipeVars

IndexInit ==
    /\ indexes = {}
    /\ nodeVectors = [n \in ExistingNodes |-> <<>>]
    /\ last = NoCall
    /\ prev = NoPrev

PipeIdle ==
    /\ text = <<>>
    /\ schema = ""
    /\ compState = <<>>
    /\ inputs = <<>>
    /\ outputs = <<>>
    /\ doneOrder = <<>>
    /\ mergedFrom = <<>>

Init == IndexInit /\ PipeIdle

Next ==
    \/ CreateVectorIndex(Faults)
    \/ CreateFulltextIndex(Faults)
    \/ DropIndexIfExists(Faults)
    \/ UpsertVector(Faults)

Spec == Init /\ [][Next]_vars

\* The same helpers over a driver whose only failures are the database's.
NextDb ==
    \/ CreateVectorIndex({"none"})
    \/ CreateFulltextIndex({"none"})
    \/ DropIndexIfExists({"none"})
    \/ UpsertVector({"none"})

SpecDb == Init /\ [][NextDb]_vars

---------------------------------------------------------------------------
(* The example pipeline's components (kg_builder.py). A text is the        *)
(* sequence of its characters' Unicode code points (Python's ord): "a.b"   *)
(* is <<97, 46, 98>>. The example's text (kg_builder.py:110-112) holds     *)
(* letters, blanks, line breaks and full stops.                            *)

\* The separator of text.split("."): the full stop.
FullStop == 46

\* The letter a, the blank, the line feed and the full stop.
Alphabet == {97, 32, 10, FullStop}

\* The characters str.strip() removes, those str.isspace() holds of:
\* U+0009-000D, U+001C-001F, U+0020, U+0085, U+00A0, U+1680, U+2000-200A,
\* U+2028, U+2029, U+202F, U+205F, U+3000.
Whitespace ==
    (9 .. 13) \cup (28 .. 32) \cup {133, 160, 5760} \cup (8192 .. 8202)
        \cup {8232, 8233, 8239, 8287, 12288}
Texts == UNION {[1 .. n -> Alphabet] : n \in 0 .. MaxTextLen}
Schemas == {"Person OWNS House", ""}

\* str.split(sep): the pieces between the separators, the empty ones included
RECURSIVE split(_, _)
split(s, sep) ==
    IF \A i \in 1 .. Len(s) : s[i] # sep
    THEN <<s>>
    ELSE LET k == CHOOSE i \in 1 .. Len(s) :
                     s[i] = sep /\ \A j \in 1 .. (i - 1) : s[j] # sep
         IN <<SubSeq(s, 1, k - 1)>> \o split(SubSeq(s, k + 1, Len(s)), sep)

RECURSIVE lstrip(_)
lstrip(s) ==
    IF s # <<>> /\ Head(s) \in Whitespace THEN lstrip(Tail(s)) ELSE s

RECURSIVE rstrip(_)
rstrip(s) ==
    IF s # <<>> /\ s[Len(s)] \in Whitespace
    THEN rstrip(SubSeq(s, 1, Len(s) - 1))
    ELSE s

\* str.strip()
strip(s) == rstrip(lstrip(s))

Truthy(s) == s # <<>>

\* chunks = [t.strip() for t in text.split(".") if t.strip()]
DocumentChunker_run(txt) ==
    LET parts == split(txt, FullStop)
    IN [chunks |-> SelectSeq([i \in 1 .. Len(parts) |-> strip(parts[i])], Truthy)]

SchemaBuilder_run(sch) == [data_schema |-> sch]

\* EntityModel(**e): the declared fields of the mapping e
EntityModel(e) == [label |-> e.label, properties |-> e.properties]

ERExtractor_process_chunk(chunk, sch) ==
    [entities |-> <<[label |-> "Person", properties |-> [name |-> "John Doe"]]>>,
     relations |-> <<>>]

\* Mutant: the results come in the order the tasks completed.
gather_as_completed(tasks, completed) ==
    [k \in 1 .. Len(completed) |->
        [task |-> completed[k], res |-> tasks[completed[k]]]]

\* asyncio.gather(*tasks): the tasks' results in the order of the tasks,
\* whatever order they completed in; each result is kept with its task.
gather(tasks, completed) ==
    [i \in 1 .. Len(tasks) |-> [task |-> i, res |-> tasks[i]]]

\* for res in result: merged_result[key] += res[key]
RECURSIVE Merge(_, _)
Merge(result, key) ==
    IF result = <<>> THEN <<>>
    ELSE result[1].res[key] \o Merge(Tail(result), key)

\* The task each merged entity came from.
RECURSIVE Provenance(_)
Provenance(result) ==
    IF result = <<>> THEN <<>>
    ELSE [i \in 1 .. Len(result[1].res.entities) |-> result[1].task]
         \o Provenance(Tail(result))

MapEntities(list) == [i \in 1 .. Len(list) |-> EntityModel(list[i])]

ERExtractor_run(chunks, sch, completed) ==
    LET tasks == [i \in 1 .. Len(chunks) |-> ERExtractor_process_chunk(chunks[i], sch)]
        result == gather(tasks, completed)
    IN [entities |-> MapEntities(Merge(result, "entities")),
        relations |-> MapEntities(Merge(result, "relations")),
        from |-> Provenance(result)]

\* Mutant: the two lists are written to each other's field.
Writer_run_swapped(entities, relations) ==
    [status |-> "OK",
     entities |-> MapEntities(relations),
     relations |-> MapEntities(entities)]

Writer_run(entities, relations) ==
    [status |-> "OK",
     entities |-> MapEntities(entities),
     relations |-> MapEntities(relations)]

---------------------------------------------------------------------------
(* The pipeline of __main__ and its runner (neo4j_genai.pipeline).         *)

Components == {"chunker", "schema", "extractor", "writer"}

\* Mutant: the chunker is never connected to the extractor.
Edges_without_chunker ==
    {[from |-> "schema", to |-> "extractor",
      fromField |-> "data_schema", toField |-> "schema"],
     [from |-> "extractor", to |-> "writer",
      fromField |-> "entities", toField |-> "entities"],
     [from |-> "extractor", to |-> "writer",
      fromField |-> "relations", toField |-> "relations"]}

\* pipe.connect(from, to, input_config={toField: "from.fromField"})
Edges ==
    {[from |-> "chunker", to |-> "extractor",
      fromField |-> "chunks", toField |-> "chunks"],
     [from |-> "schema", to |-> "extractor",
      fromField |-> "data_schema", toField |-> "schema"],
     [from |-> "extractor", to |-> "writer",
      fromField |-> "entities", toField |-> "entities"],
     [from |-> "extractor", to |-> "writer",
      fromField |-> "relations", toField |-> "relations"]}

pipe_inputs(c) ==
    CASE c = "chunker" -> [text |-> text]
      [] c = "schema" -> [schema |-> schema]
      [] OTHER -> <<>>

InEdges(c) == {e \in Edges : e.to = c}

\* Every inbound edge's source is Done and has produced the edge's field.
Ready(c) ==
    \A e \in InEdges(c) :
        compState[e.from] = "Done" /\ e.fromField \in DOMAIN outputs[e.from]

\* The arguments of c's run: its pipe_inputs and the fields its edges carry.
ComponentInputs(c) ==
    LET given == pipe_inputs(c)
        edges == InEdges(c)
    IN [f \in DOMAIN given \cup {e.toField : e \in edges} |->
          IF f \in DOMAIN given
          THEN given[f]
          ELSE LET e == CHOOSE e \in edges : e.toField = f
               IN outputs[e.from][e.fromField]]

RunComponent(c, args) ==
    CASE c = "chunker" -> DocumentChunker_run(args.text)
      [] c = "schema" -> SchemaBuilder_run(args.schema)
      [] c = "extractor" -> ERExtractor_run(args.chunks, args.schema, doneOrder)
      [] c = "writer" -> Writer_run(args.entities, args.relations)

BecomeReady(c) ==
    /\ compState[c] = "Pending"
    /\ Ready(c)
    /\ compState' = [compState EXCEPT ![c] = "Ready"]
    /\ UNCHANGED <<text, schema, inputs, outputs, doneOrder, mergedFrom>>

StartComponent(c) ==
    /\ compState[c] = "Ready"
    /\ compState' = [compState EXCEPT ![c] = "Running"]
    /\ inputs' = [inputs EXCEPT ![c] = ComponentInputs(c)]
    /\ UNCHANGED <<text, schema, outputs, doneOrder, mergedFrom>>

\* One of the extractor's gathered _process_chunk tasks completes.
CompleteChunk(i) ==
    /\ compState["extractor"] = "Running"
    /\ i \in 1 .. Len(inputs["extractor"].chunks)
    /\ \A k \in 1 .. Len(doneOrder) : doneOrder[k] # i
    /\ doneOrder' = Append(doneOrder, i)
    /\ UNCHANGED <<text, schema, compState, inputs, outputs, mergedFrom>>

FinishComponent(c) ==
    /\ compState[c] = "Running"
    /\ c = "extractor" => Len(doneOrder) = Len(inputs[c].chunks)
    /\ LET out == RunComponent(c, inputs[c])
       IN /\ outputs' = [outputs EXCEPT ![c] =
                            [f \in DOMAIN out \ {"from"} |-> out[f]]]
          /\ mergedFrom' = IF c = "extractor" THEN out.from ELSE mergedFrom
    /\ compState' = [compState EXCEPT ![c] = "Done"]
    /\ UNCHANGED <<text, schema, inputs, doneOrder>>

PipeInit ==
    /\ text \in Texts
    /\ schema \in Schemas
    /\ compState = [c \in Components |-> "Pending"]
    /\ inputs = [c \in Components |-> <<>>]
    /\ outputs = [c \in Components |-> <<>>]
    /\ doneOrder = <<>>
    /\ mergedFrom = <<>>

PipeNext ==
    \/ \E c \in Components : BecomeReady(c) /\ UNCHANGED indexVars
    \/ \E c \in Components : StartComponent(c) /\ UNCHANGED indexVars
    \/ \E i \in 1 .. Len(text) : CompleteChunk(i) /\ UNCHANGED indexVars
    \/ \E c \in Components : FinishComponent(c) /\ UNCHANGED indexVars

PipeSpecInit == IndexInit /\ PipeInit

PipeSpec == PipeSpecInit /\ [][PipeNext]_vars

---------------------------------------------------------------------------
(* Properties of the index helpers.                                        *)

IsConfigurationError(outcome) ==
    /\ outcome.kind = "raise"
    /\ outcome.cls = "Neo4jIndexError"
    /\ outcome.message[1] \in {"Error for inputs to create_vector_index ",
                               "Error for inputs to create_fulltext_index: "}

IsPositiveInteger(d) == d.type = "int" /\ d.val > 0

Contains(message, part) == \E i \in 1 .. Len(message) : message[i] = part

DomainError(op) ==
    IF op = "upsert_vector" THEN "Neo4jInsertionError" ELSE "Neo4jIndexError"

\* C1: create_vector_index called with dimensions <= 0 or non-integer, or with
\* a similarity function outside {euclidean, cosine}, raises the configuration
\* error (Neo4jIndexError) and sends no statement to the driver.
C1_InvalidVectorArgumentsSendNothing ==
    (/\ last.op = "create_vector_index"
     /\ \/ ~IsPositiveInteger(last.args.dimensions)
        \/ last.args.similarity_fn \notin {"euclidean", "cosine"})
    => /\ IsConfigurationError(last.outcome)
       /\ last.sent = <<>>
       /\ indexes = last.before

C1_Witness ==
    /\ last.op = "create_vector_index"
    /\ last.args.dimensions = [type |-> "float", val |-> 1]
    /\ last.args.similarity_fn = "cosine"
    /\ last.outcome.kind = "raise"
    /\ last.sent = <<>>

\* C2: create_vector_index called with a positive-integer dimensions and a
\* similarity function in {euclidean, cosine} sends exactly one statement to
\* the driver and raises no configuration error.
C2_ValidVectorArgumentsSendOneStatement ==
    (/\ last.op = "create_vector_index"
     /\ IsPositiveInteger(last.args.dimensions)
     /\ last.args.similarity_fn \in {"euclidean", "cosine"})
    => /\ Len(last.sent) = 1
       /\ ~IsConfigurationError(last.outcome)

C2_Witness ==
    /\ last.op = "create_vector_index"
    /\ last.args.dimensions = [type |-> "int", val |-> DIMENSION]
    /\ last.args.similarity_fn = "euclidean"
    /\ Len(last.sent) = 1
    /\ last.outcome = Returned
    /\ last.args.name \in indexes

\* C3: create_fulltext_index called with an empty properties list raises the
\* configuration error and no statement reaches the driver.
C3_EmptyPropertiesSendNothing ==
    (last.op = "create_fulltext_index" /\ last.args.node_properties = <<>>)
    => /\ IsConfigurationError(last.outcome)
       /\ last.sent = <<>>
       /\ indexes = last.before

C3_Witness ==
    /\ last.op = "create_fulltext_index"
    /\ last.args.node_properties = <<>>
    /\ last.outcome.kind = "raise"
    /\ last.sent = <<>>

\* C4: drop_index_if_exists returns normally whether or not the index exists,
\* leaves no index of that name, and a second call in a row with the same name
\* leaves the set of indexes as the first call left it.
C4_DropIsIdempotent ==
    last.op = "drop_index_if_exists"
    => /\ last.outcome = Returned
       /\ indexes = last.before \ {last.args.name}
       /\ (prev.op = "drop_index_if_exists" /\ prev.name = last.args.name)
            => indexes = last.before

C4_Witness ==
    /\ prev.op = "drop_index_if_exists"
    /\ prev.existed
    /\ last.op = "drop_index_if_exists"
    /\ last.args.name = prev.name
    /\ last.outcome = Returned
    /\ indexes = last.before

\* C5 as stated: every failure the driver raises while executing the statement
\* reaches the caller as the helper's typed domain error carrying the original
\* message.
C5_EveryDriverFailureIsWrapped ==
    last.driverExc.cls # "None"
    => /\ last.outcome.kind = "raise"
       /\ last.outcome.cls = DomainError(last.op)
       /\ Contains(last.outcome.message, last.driverExc.message[1])

\* C5 (amended): a ClientError the driver raises reaches the caller as the
\* helper's typed domain error (Neo4jInsertionError for upsert_vector,
\* Neo4jIndexError for the others) whose message contains the original
\* message; any other driver failure reaches the caller unchanged; no call
\* returns normally after the driver failed.
C5_ClientErrorsWrappedOthersPropagate ==
    /\ last.driverExc.cls = "ClientError"
       => /\ last.outcome.kind = "raise"
          /\ last.outcome.cls = DomainError(last.op)
          /\ Contains(last.outcome.message, last.driverExc.message[1])
    /\ last.driverExc.cls \notin {"None", "ClientError"}
       => last.outcome = Raised(last.driverExc.cls, last.driverExc.message)
    /\ last.driverExc.cls # "None" => last.outcome.kind = "raise"

C5_Witness ==
    /\ last.op = "upsert_vector"
    /\ last.driverExc.cls = "ClientError"
    /\ last.outcome.cls = "Neo4jInsertionError"
    /\ Contains(last.outcome.message, ForbiddenMessage)

IsCreate(op) == op \in {"create_vector_index", "create_fulltext_index"}

\* C6: a create call whose name an existing index already has fails with
\* Neo4jIndexError, wrapping the database's message when the statement was
\* sent, and leaves the set of indexes unchanged; a create call with accepted
\* arguments that follows drop_index_if_exists on its name succeeds.
C6_DuplicateNameRejectedUntilDropped ==
    /\ (IsCreate(last.op) /\ last.args.name \in last.before)
       => /\ last.outcome.kind = "raise"
          /\ last.outcome.cls = "Neo4jIndexError"
          /\ last.sent # <<>> => Contains(last.outcome.message, DuplicateMessage)
          /\ indexes = last.before
    /\ (/\ IsCreate(last.op)
        /\ last.sent # <<>>
        /\ prev.op = "drop_index_if_exists"
        /\ prev.name = last.args.name)
       => /\ last.outcome = Returned
          /\ indexes = last.before \cup {last.args.name}

C6_Witness ==
    /\ prev.op = "drop_index_if_exists"
    /\ prev.existed
    /\ last.op = "create_fulltext_index"
    /\ last.args.name = prev.name
    /\ last.outcome = Returned
    /\ last.args.name \in indexes

\* C7: upsert_vector sends the match-by-id statement with exactly the
\* parameters {id: node_id, embedding_property: embedding_property,
\* vector: vector}; the statement create_vector_index sends renders the given
\* label and property in its text and binds the given name, dimensions and
\* similarity function.
C7_StatementsCarryTheArguments ==
    /\ last.op = "upsert_vector"
       => last.sent =
            <<[query |-> <<UpsertQuery>>,
               parameters |->
                 [id |-> last.args.node_id,
                  embedding_property |-> last.args.embedding_property,
                  vector |-> last.args.vector]]>>
    /\ (last.op = "create_vector_index" /\ last.sent # <<>>)
       => /\ last.sent[1].query[1] = VectorIndexHead
          /\ last.sent[1].query[2] = last.args.label
          /\ last.sent[1].query[4] = last.args.embedding_property
          /\ last.sent[1].parameters =
                [name |-> last.args.name,
                 dimensions |-> last.args.dimensions,
                 similarity_fn |-> last.args.similarity_fn]

C7_Witness ==
    /\ prev.op = "create_vector_index"
    /\ last.op = "upsert_vector"
    /\ last.args = [node_id |-> 0, embedding_property |-> "vectorProperty",
                    vector |-> <<1, 2, 3>>]
    /\ last.sent[1].parameters =
          [id |-> 0, embedding_property |-> "vectorProperty",
           vector |-> <<1, 2, 3>>]
    /\ nodeVectors[0] = <<1, 2, 3>>

---------------------------------------------------------------------------
(* Properties of the example pipeline.                                     *)

Started(c) == compState[c] \in {"Running", "Done"}

\* C8: when the run has ended, the writer's output has status "OK" and its
\* entities and relations lists equal the lists the extractor emitted.
C8_WriterPassesExtractorOutputThrough ==
    compState["writer"] = "Done"
    => /\ outputs["writer"].status = "OK"
       /\ outputs["writer"].entities = outputs["extractor"].entities
       /\ outputs["writer"].relations = outputs["extractor"].relations

C8_Witness ==
    /\ \A c \in Components : compState[c] = "Done"
    /\ Len(outputs["chunker"].chunks) = 3
    /\ outputs["writer"].status = "OK"
    /\ Len(outputs["writer"].entities) = 3
    /\ outputs["writer"].relations = <<>>

\* C9: the extractor never starts before the chunker and the schema builder
\* are Done and have produced chunks and data_schema; the writer never starts
\* before the extractor is Done and has produced entities and relations.
C9_NoComponentStartsBeforeItsSources ==
    /\ Started("extractor")
       => /\ compState["chunker"] = "Done"
          /\ "chunks" \in DOMAIN outputs["chunker"]
          /\ compState["schema"] = "Done"
          /\ "data_schema" \in DOMAIN outputs["schema"]
    /\ Started("writer")
       => /\ compState["extractor"] = "Done"
          /\ {"entities", "relations"} \subseteq DOMAIN outputs["extractor"]

C9_Witness ==
    /\ compState["extractor"] = "Running"
    /\ compState["chunker"] = "Done"
    /\ compState["schema"] = "Done"
    /\ compState["writer"] = "Pending"

\* The per-chunk lists of chunks i .. n, one after the other.
RECURSIVE InChunkOrder(_, _, _, _)
InChunkOrder(chunks, sch, key, i) ==
    IF i > Len(chunks) THEN <<>>
    ELSE ERExtractor_process_chunk(chunks[i], sch)[key]
         \o InChunkOrder(chunks, sch, key, i + 1)

RECURSIVE TotalLength(_, _, _, _)
TotalLength(chunks, sch, key, i) ==
    IF i > Len(chunks) THEN 0
    ELSE Len(ERExtractor_process_chunk(chunks[i], sch)[key])
         + TotalLength(chunks, sch, key, i + 1)

\* C10: whatever order the gathered tasks completed in, the extractor's
\* entities (and relations) are the chunks' lists concatenated in chunk order:
\* their length is the sum of the per-chunk lengths and each merged entity
\* comes from the next chunk in turn, none lost and none twice.
C10_ExtractorMergesInChunkOrder ==
    compState["extractor"] = "Done"
    => LET chunks == outputs["chunker"].chunks
           sch == outputs["schema"].data_schema
           out == outputs["extractor"]
       IN /\ out.entities = InChunkOrder(chunks, sch, "entities", 1)
          /\ out.relations = InChunkOrder(chunks, sch, "relations", 1)
          /\ Len(out.entities) = TotalLength(chunks, sch, "entities", 1)
          /\ Len(out.relations) = TotalLength(chunks, sch, "relations", 1)
          /\ mergedFrom = [i \in 1 .. Len(chunks) |-> i]

C10_Witness ==
    /\ compState["extractor"] = "Done"
    /\ doneOrder = <<3, 1, 2>>
    /\ Len(outputs["extractor"].entities) = 3
    /\ mergedFrom = <<1, 2, 3>>

====
